---- MODULE Spec2Model ----
(***************************************************************************)
(* Model of movie_income.py: main loads a ranking (fetch_online or         *)
(* read_local), preprocess parses dates and sorts, export_all writes three *)
(* data files, five chart functions write one image each.                  *)
(*                                                                         *)
(* The Chinese column names of the DataFrame are written in ASCII:         *)
(*   rank = pai ming, name = dian ying ming cheng, release = shang ying    *)
(*   shi jian, box = zong piao fang (wan yuan), price = ping jun piao jia  *)
(*   (yuan), aud = ping jun chang ci guan zhong shu, date = shang ying ri  *)
(*   qi jie xi, year = nian fen.                                           *)
(* A cell is <<>> when it is null (None, NaN, NaT) and <<v>> otherwise.    *)
(* Floats are modelled by integers.                                        *)
(***************************************************************************)
EXTENDS Integers, Sequences, FiniteSets, TLC

VARIABLES
    local_csv,  \* main's argument: "none", "missing" (path that does not exist), "exists"
    resp,       \* what the ranking service answers to the POST
    csv,        \* the local snapshot file
    pc,         \* position in main
    raw,        \* the DataFrame returned by fetch_online / read_local
    df,         \* the DataFrame returned by preprocess
    order,      \* index labels of raw in the order sort_values put them
    folder,     \* TRUE once os.makedirs created the run directory
    files,      \* the artifacts that exist in the run directory
    drawn,      \* per call of main that returned: <<the rows it wrote or drew>>, else <<>>
    err,        \* the exception that ended the run, "" when none
    console     \* the lines main printed

vars == <<local_csv, resp, csv, pc, raw, df, order, folder, files, drawn, err, console>>

----------------------------------------------------------------------------
(* Bounds of the inputs *)

MaxSortLen == 3    \* longest table drawn from SortPool
MaxNumLen == 2     \* longest table drawn from NumPool
MaxLong == 12      \* longest generated table (beyond the top-10 cut-off)
MaxCsvRows == 2    \* most rows of a local snapshot

----------------------------------------------------------------------------
(* Cells *)

None == <<>>
Some(v) == <<v>>
IsNull(c) == c = <<>>
NotNull(c) == c # <<>>
Val(c) == c[1]

Min(a, b) == IF a <= b THEN a ELSE b

Range(s) == {s[i] : i \in 1..Len(s)}

RECURSIVE SumSeq(_)
SumSeq(s) == IF s = <<>> THEN 0 ELSE Head(s) + SumSeq(Tail(s))

----------------------------------------------------------------------------
(* JSON values of a remote entry *)

Absent == [t |-> "absent", s |-> "", n |-> 0]
JNull == [t |-> "null", s |-> "", n |-> 0]
JNum(n) == [t |-> "num", s |-> "", n |-> n]
JStr(s) == [t |-> "str", s |-> s, n |-> 0]

\* item.get(key): None when the key is absent or null
Get(v) ==
    CASE v.t = "num" -> Some(v.n)
      [] v.t = "str" -> Some(v.s)
      [] OTHER -> None

\* item.get(key, 0) or 0: a missing, null or falsy value becomes 0
OrZero(v) ==
    IF \/ v.t \in {"absent", "null"}
       \/ (v.t = "num" /\ v.n = 0)
       \/ (v.t = "str" /\ v.s = "")
    THEN JNum(0) ELSE v

\* float() that would give 0 for a text that is not a number
PyFloatLenient(v) ==
    CASE v.t = "num" -> [ok |-> TRUE, cell |-> Some(v.n)]
      [] v.t = "str" /\ v.s = "1000" -> [ok |-> TRUE, cell |-> Some(1000)]
      [] v.t = "str" /\ v.s = "45" -> [ok |-> TRUE, cell |-> Some(45)]
      [] v.t = "str" /\ v.s = "nan" -> [ok |-> TRUE, cell |-> None]
      [] OTHER -> [ok |-> TRUE, cell |-> Some(0)]

\* float(x): a number converts, a numeric text parses, "nan" parses to NaN,
\* any other text raises ValueError
PyFloat(v) ==
    CASE v.t = "num" -> [ok |-> TRUE, cell |-> Some(v.n)]
      [] v.t = "str" /\ v.s = "1000" -> [ok |-> TRUE, cell |-> Some(1000)]
      [] v.t = "str" /\ v.s = "45" -> [ok |-> TRUE, cell |-> Some(45)]
      [] v.t = "str" /\ v.s = "nan" -> [ok |-> TRUE, cell |-> None]
      [] OTHER -> [ok |-> FALSE, cell |-> None]

ToFloat(v) == PyFloat(OrZero(v))

----------------------------------------------------------------------------
(* fetch_online *)

Fields == {"rank", "name", "release", "box", "price", "aud"}

\* to_row(item): the three numeric fields go through float(... or 0)
to_row(item, i) ==
    [index |-> i,
     rank |-> Get(item.Irank),
     name |-> Get(item.MovieName),
     release |-> Get(item.ReleaseTime),
     box |-> ToFloat(item.BoxOffice).cell,
     price |-> ToFloat(item.AvgBoxOffice).cell,
     aud |-> ToFloat(item.AvgAudienceCount).cell]

\* to_row raises when one of its three float() calls raises
RowRaises(item) ==
    \/ ~ToFloat(item.BoxOffice).ok
    \/ ~ToFloat(item.AvgBoxOffice).ok
    \/ ~ToFloat(item.AvgAudienceCount).ok

\* (resp.json() or {}).get('data', {}).get('table0', []) or []
Table0(r) == IF r.body = "table" THEN r.table ELSE <<>>

Failed(e) == [ok |-> FALSE, err |-> e, df |-> <<>>]
Loaded(d) == [ok |-> TRUE, err |-> "", df |-> d]

\* fetch_online without the df.empty test
NoEmptyCheck(r) ==
    IF r.status # "ok" THEN Failed("RequestException")
    ELSE IF r.body = "datanull" THEN Failed("AttributeError")
    ELSE IF \E i \in 1..Len(Table0(r)) : RowRaises(Table0(r)[i])
         THEN Failed("ValueError: could not convert to float")
    ELSE Loaded([i \in 1..Len(Table0(r)) |-> to_row(Table0(r)[i], i)])

fetch_online(r) ==
    IF r.status # "ok" THEN Failed("RequestException")
    ELSE IF r.body = "datanull" THEN Failed("AttributeError")
    ELSE IF \E i \in 1..Len(Table0(r)) : RowRaises(Table0(r)[i])
         THEN Failed("ValueError: could not convert to float")
    ELSE IF Len(Table0(r)) = 0 THEN Failed("ValueError: empty dataset")
    ELSE Loaded([i \in 1..Len(Table0(r)) |-> to_row(Table0(r)[i], i)])

----------------------------------------------------------------------------
(* read_local *)

\* the columns of the frame after the mapper loop: a legacy column is copied
\* to its canonical name when the canonical one is not there
MappedColumns(f) == f.cn \cup {c \in f.en : c \notin f.cn}

\* the cell of column c in row i after the mapper loop
MappedCell(f, i, c) == IF c \in f.cn THEN f.cnrows[i][c] ELSE f.enrows[i][c]

read_local(f) ==
    IF ~f.readable THEN Failed("read_csv error")
    ELSE IF ~(Fields \subseteq MappedColumns(f)) THEN Failed("KeyError")
    ELSE Loaded([i \in 1..Len(f.cnrows) |->
                    [index |-> i,
                     rank |-> MappedCell(f, i, "rank"),
                     name |-> MappedCell(f, i, "name"),
                     release |-> MappedCell(f, i, "release"),
                     box |-> MappedCell(f, i, "box"),
                     price |-> MappedCell(f, i, "price"),
                     aud |-> MappedCell(f, i, "aud")]])

----------------------------------------------------------------------------
(* preprocess *)

\* pd.to_datetime on one value; an exception gives NaT. A date is the number
\* yyyymmdd.
_parse_date(c) ==
    IF IsNull(c) THEN None
    ELSE CASE Val(c) = "2022-12-25" -> Some(20221225)
           [] Val(c) = "2023-01-10" -> Some(20230110)
           [] Val(c) = "2023/01/10" -> Some(20230110)
           [] Val(c) = "2021-07-01" -> Some(20210701)
           [] OTHER -> None

\* a year column whose NaN were filled with 0
YearOrZero(d) == IF IsNull(d) THEN Some(0) ELSE Some(Val(d) \div 10000)

\* .dt.year
YearOf(d) == IF IsNull(d) THEN None ELSE Some(Val(d) \div 10000)

WithDate(r) ==
    [index |-> r.index, rank |-> r.rank, name |-> r.name, release |-> r.release,
     box |-> r.box, price |-> r.price, aud |-> r.aud,
     date |-> _parse_date(r.release), year |-> YearOf(_parse_date(r.release))]

\* ascending order of one sort key, nulls last
KeyLess(a, b) == NotNull(a) /\ (IsNull(b) \/ Val(a) < Val(b))

\* r goes strictly before q in sort_values(["date", "rank"])
Before(r, q) ==
    \/ KeyLess(r.date, q.date)
    \/ (r.date = q.date /\ KeyLess(r.rank, q.rank))

\* x put into the sorted s behind every row it does not go strictly before
RECURSIVE Insert(_, _)
Insert(x, s) ==
    IF s = <<>> THEN <<x>>
    ELSE IF Before(x, s[Len(s)]) THEN Append(Insert(x, SubSeq(s, 1, Len(s) - 1)), s[Len(s)])
    ELSE Append(s, x)

\* a sort that puts a row before its equals
RECURSIVE InsertFront(_, _)
InsertFront(x, s) ==
    IF s = <<>> THEN <<x>>
    ELSE IF Before(s[1], x) THEN <<s[1]>> \o InsertFront(x, Tail(s))
    ELSE <<x>> \o s

RECURSIVE UnstableSort(_)
UnstableSort(s) ==
    IF s = <<>> THEN <<>>
    ELSE InsertFront(s[Len(s)], UnstableSort(SubSeq(s, 1, Len(s) - 1)))

\* sort_values(["date", "rank"]): ascending, nulls last, stable
RECURSIVE SortValues(_)
SortValues(s) ==
    IF s = <<>> THEN <<>>
    ELSE Insert(s[Len(s)], SortValues(SubSeq(s, 1, Len(s) - 1)))

\* ignore_index=True: the index becomes 1..n
ResetIndex(s) == [i \in 1..Len(s) |-> [s[i] EXCEPT !.index = i]]

Parsed(d) == [i \in 1..Len(d) |-> WithDate(d[i])]

Labels(s) == [i \in 1..Len(s) |-> s[i].index]

preprocess(d) == ResetIndex(SortValues(Parsed(d)))

----------------------------------------------------------------------------
(* The yearly aggregate: export_all's second sheet and the pie chart *)

\* the elements of a set of numbers in ascending order
RECURSIVE Ascending(_)
Ascending(S) ==
    IF S = {} THEN <<>>
    ELSE LET m == CHOOSE x \in S : \A y \in S : x <= y
         IN <<m>> \o Ascending(S \ {m})

\* dropna(subset=["year"])
DropNaYear(d) == SelectSeq(d, LAMBDA r : NotNull(r.year))

\* the sum of a column over the rows, NaN skipped
RECURSIVE SumBox(_)
SumBox(d) ==
    IF d = <<>> THEN 0
    ELSE (IF IsNull(d[1].box) THEN 0 ELSE Val(d[1].box)) + SumBox(Tail(d))

GroupKeys(d) == {Val(d[i].year) : i \in 1..Len(d)}

\* .count() in the place of .sum()
CountOf(d, y) == Len(SelectSeq(d, LAMBDA r : r.year = Some(y)))

\* the sum of the group of key y
SumOf(d, y) == SumBox(SelectSeq(d, LAMBDA r : r.year = Some(y)))

\* groupby("year")["box"].sum(): one group per key, keys sorted
GroupBySum(d) ==
    [k \in 1..Len(Ascending(GroupKeys(d))) |->
        [year |-> Ascending(GroupKeys(d))[k], total |-> SumOf(d, Ascending(GroupKeys(d))[k])]]

\* sort_index() of the grouped series
SortIndex(g) ==
    LET pos(y) == CHOOSE k \in 1..Len(g) : g[k].year = y
        ys == Ascending({g[k].year : k \in 1..Len(g)})
    IN [k \in 1..Len(ys) |-> g[pos(ys[k])]]

\* export_all, lines 101-103
yearly(d) == GroupBySum(DropNaYear(d))

\* chart_pie_share_by_year, lines 130-132
share(d) == SortIndex(GroupBySum(DropNaYear(d)))

----------------------------------------------------------------------------
(* Row selection of the charts *)

TopN == 10
NotableN == 5

\* x put into s, which is in descending order of col, behind its equals
RECURSIVE InsertDesc(_, _, _)
InsertDesc(x, s, col) ==
    IF s = <<>> THEN <<x>>
    ELSE IF Val(x[col]) > Val(s[Len(s)][col])
         THEN Append(InsertDesc(x, SubSeq(s, 1, Len(s) - 1), col), s[Len(s)])
    ELSE Append(s, x)

RECURSIVE SortDesc(_, _)
SortDesc(s, col) ==
    IF s = <<>> THEN <<>>
    ELSE InsertDesc(s[Len(s)], SortDesc(SubSeq(s, 1, Len(s) - 1), col), col)

\* the last occurrence among equals first
RECURSIVE InsertDescLast(_, _, _)
InsertDescLast(x, s, col) ==
    IF s = <<>> THEN <<x>>
    ELSE IF Val(x[col]) >= Val(s[Len(s)][col])
         THEN Append(InsertDescLast(x, SubSeq(s, 1, Len(s) - 1), col), s[Len(s)])
    ELSE Append(s, x)

RECURSIVE SortDescLast(_, _)
SortDescLast(s, col) ==
    IF s = <<>> THEN <<>>
    ELSE InsertDescLast(s[Len(s)], SortDescLast(SubSeq(s, 1, Len(s) - 1), col), col)

Head_n(s, n) == SubSeq(s, 1, Min(n, Len(s)))

\* nlargest with keep="last"
KeepLast(d, n, col) ==
    Head_n(SortDescLast(SelectSeq(d, LAMBDA r : NotNull(r[col])), col)
             \o SelectSeq(d, LAMBDA r : IsNull(r[col])), n)

\* DataFrame.nlargest(n, col), keep="first": the rows in descending order of
\* col, the first occurrence first among equals, NaN rows behind all others
nlargest(d, n, col) ==
    Head_n(SortDesc(SelectSeq(d, LAMBDA r : NotNull(r[col])), col)
             \o SelectSeq(d, LAMBDA r : IsNull(r[col])), n)

\* the concatenation left as it is
NoDedup(s) == s

\* drop_duplicates(subset=["name"]): the first row of each name stays
drop_duplicates(s) ==
    LET keep == {i \in 1..Len(s) : \A j \in 1..(i - 1) : s[j].name # s[i].name}
    IN [k \in 1..Cardinality(keep) |-> s[Ascending(keep)[k]]]

\* chart_line_release_vs_boxoffice: the points that get a label
line_labels(d) == SelectSeq(d, LAMBDA r : NotNull(r.date) /\ NotNull(r.box))

top_price(d) == nlargest(d, TopN, "price")

top_aud(d) == nlargest(d, TopN, "aud")

\* chart_scatter_price_vs_boxoffice, lines 178-180
notable(d) == drop_duplicates(nlargest(d, NotableN, "box") \o nlargest(d, NotableN, "price"))

----------------------------------------------------------------------------
(* Inputs *)

Item(rk, nm, rt, bo, pr, au) ==
    [Irank |-> rk, MovieName |-> nm, ReleaseTime |-> rt,
     BoxOffice |-> bo, AvgBoxOffice |-> pr, AvgAudienceCount |-> au]

Names == <<"A", "B", "C", "D", "E", "F", "G", "H", "I", "J", "K", "L", "M", "N">>

\* entries that differ in rank and release time
SortPool ==
    {Item(rk, JStr("A"), rt, JNum(800), JNum(45), JNum(120)) :
        rk \in {JNum(1), JNum(2), Absent},
        rt \in {JStr("2022-12-25"), JStr("2023-01-10"), JStr("soon")}}

\* the forms a numeric field of the response can take
NumRaw == {Absent, JNull, JNum(800), JStr("1000"), JStr(""), JStr("abc"), JStr("nan")}

\* entries that differ in one numeric field
NumPool ==
    {Item(JNum(1), JStr("A"), JStr("2023/01/10"), v, JNum(45), JNum(120)) : v \in NumRaw}
    \cup {Item(JNum(1), JStr("A"), JNull, JNum(800), v, JNum(120)) : v \in NumRaw}
    \cup {Item(JNum(1), Absent, JStr("2023/01/10"), JNum(800), JNum(45), v) : v \in NumRaw}

\* the entries of a table named by their position, so that equal entries
\* stay distinguishable
Named(t) ==
    [i \in 1..Len(t) |->
        IF t[i].MovieName.t = "str" THEN [t[i] EXCEPT !.MovieName = JStr(Names[i])] ELSE t[i]]

TablesOf(pool, n) == UNION {{Named(t) : t \in [1..k -> pool]} : k \in 1..n}

\* generated tables: values repeat with period pm (prices, audiences), bm
\* (box office) and nm (names)
Patterns ==
    [pa : {1, 2}, pm : {1, 3, 13}, bm : {2, 13}, nm : {3, 7, 13}, nan : BOOLEAN]

ReleaseCycle == <<"2022-12-25", "2023-01-10", "2021-07-01", "soon">>

LongItem(p, i) ==
    Item(JNum(i), JStr(Names[(i % p.nm) + 1]), JStr(ReleaseCycle[(i % 4) + 1]),
         JNum(((i * 3) % p.bm) * 100),
         IF p.nan /\ i % 4 = 0 THEN JStr("nan") ELSE JNum(((i * p.pa) % p.pm) * 10 + 10),
         JNum(((i * p.pa + 1) % p.pm) * 5 + 5))

LongTables == {[i \in 1..n |-> LongItem(p, i)] : p \in Patterns, n \in 0..MaxLong}

Resp(status, body, table) == [status |-> status, body |-> body, table |-> table]

\* the response without a usable table: request failed, body null, {} ,
\* {"data": null}, {"data": {}}, {"data": {"table0": null}}
NoTableResps ==
    {Resp("error", "null", <<>>)}
    \cup {Resp("ok", b, <<>>) : b \in {"null", "nodata", "datanull", "notable", "tablenull"}}

TableResps ==
    {Resp("ok", "table", t) :
        t \in TablesOf(SortPool, MaxSortLen) \cup TablesOf(NumPool, MaxNumLen) \cup LongTables}

CsvRow(rk, nm, rt, bo, pr, au) ==
    [rank |-> rk, name |-> nm, release |-> rt, box |-> bo, price |-> pr, aud |-> au]

CsvPool ==
    {CsvRow(Some(1), Some("A"), Some("2023-01-10"), Some(1000), Some(45), Some(120)),
     CsvRow(Some(2), Some("B"), Some("2022-12-25"), Some(800), Some(50), Some(90)),
     CsvRow(None, None, None, None, None, None)}

\* what the legacy columns hold in the row whose canonical columns hold r
Legacy(r) ==
    CsvRow(IF IsNull(r.rank) THEN Some(9) ELSE Some(Val(r.rank) + 2),
           Some("Z"), Some("2021-07-01"), Some(5), r.price, r.aud)

\* headers: every column under its canonical name (base "cn") or its legacy
\* name (base "en"), except column f, which is there under the names `mode`
Headers ==
    {[cn |-> {g \in Fields : (g # f /\ base = "cn") \/ (g = f /\ mode \in {"cn", "both"})},
      en |-> {g \in Fields : (g # f /\ base = "en") \/ (g = f /\ mode \in {"en", "both"})}] :
        base \in {"cn", "en"}, f \in Fields, mode \in {"cn", "en", "both", "neither"}}

CsvFile(h, rows) ==
    [readable |-> TRUE, cn |-> h.cn, en |-> h.en, cnrows |-> rows,
     enrows |-> [i \in 1..Len(rows) |-> Legacy(rows[i])]]

NoCsv == [readable |-> FALSE, cn |-> {}, en |-> {}, cnrows |-> <<>>, enrows |-> <<>>]

CsvFiles ==
    {NoCsv} \cup
    {CsvFile(h, rows) : h \in Headers, rows \in UNION {[1..k -> CsvPool] : k \in 0..MaxCsvRows}}

NoResp == Resp("error", "null", <<>>)

Inputs ==
    {[arg |-> "none", resp |-> r, csv |-> NoCsv] : r \in NoTableResps \cup TableResps}
    \cup {[arg |-> "missing", resp |-> r, csv |-> NoCsv] : r \in NoTableResps}
    \cup {[arg |-> "exists", resp |-> NoResp, csv |-> f] : f \in CsvFiles}

----------------------------------------------------------------------------
(* main *)

DataFiles == <<"csv", "json", "xlsx">>
ChartFiles == <<"line", "pie", "price", "aud", "scatter">>

NothingDrawn ==
    [yearly |-> <<>>, line |-> <<>>, pie |-> <<>>, price |-> <<>>, aud |-> <<>>,
     scatter |-> <<>>]

Init ==
    /\ \E in \in Inputs :
        /\ local_csv = in.arg
        /\ resp = in.resp
        /\ csv = in.csv
    /\ pc = "load"
    /\ raw = <<>>
    /\ df = <<>>
    /\ order = <<>>
    /\ folder = FALSE
    /\ files = {}
    /\ drawn = NothingDrawn
    /\ err = ""
    /\ console = <<>>

\* read_local called outside the try block
LocalUnguarded(path) == IF path = "local" THEN "crashed" ELSE "aborted"

\* where main is after an exception in the try block of lines 192-200
AfterLoadError(path) == "aborted"

\* main without the line chart in its list
SkipLine(step) ==
    CASE step = "export" -> "pie"
      [] step = "line" -> "pie"
      [] step = "pie" -> "price"
      [] step = "price" -> "aud"
      [] step = "aud" -> "scatter"
      [] step = "scatter" -> "print"

\* the statement of main that follows a call that returned
MainNext(step) ==
    CASE step = "export" -> "line"
      [] step = "line" -> "pie"
      [] step = "pie" -> "price"
      [] step = "price" -> "aud"
      [] step = "aud" -> "scatter"
      [] step = "scatter" -> "print"

\* lines 197-200: the exception is printed with the hint, main returns
Abort(path, e) ==
    /\ err' = e
    /\ pc' = AfterLoadError(path)
    /\ console' = IF AfterLoadError(path) = "aborted"
                  THEN <<"error: cannot get data", "hint: pass a local csv">>
                  ELSE console
    /\ UNCHANGED <<raw>>

FetchOnline ==
    /\ pc = "load"
    /\ local_csv # "exists"
    /\ IF fetch_online(resp).ok
       THEN /\ raw' = fetch_online(resp).df
            /\ pc' = "preprocess"
            /\ UNCHANGED <<err, console>>
       ELSE Abort("remote", fetch_online(resp).err)
    /\ UNCHANGED <<local_csv, resp, csv, df, order, folder, files, drawn>>

ReadLocal ==
    /\ pc = "load"
    /\ local_csv = "exists"
    /\ IF read_local(csv).ok
       THEN /\ raw' = read_local(csv).df
            /\ pc' = "preprocess"
            /\ UNCHANGED <<err, console>>
       ELSE Abort("local", read_local(csv).err)
    /\ UNCHANGED <<local_csv, resp, csv, df, order, folder, files, drawn>>

Preprocess ==
    /\ pc = "preprocess"
    /\ df' = preprocess(raw)
    /\ order' = Labels(SortValues(Parsed(raw)))
    /\ pc' = "makedirs"
    /\ UNCHANGED <<local_csv, resp, csv, raw, folder, files, drawn, err, console>>

\* os.makedirs creates the directory or raises
MakeDirs ==
    /\ pc = "makedirs"
    /\ \E ok \in BOOLEAN :
        /\ folder' = ok
        /\ pc' = IF ok THEN "export" ELSE "crashed"
        /\ err' = IF ok THEN err ELSE "OSError"
    /\ UNCHANGED <<local_csv, resp, csv, raw, df, order, files, drawn, console>>

\* export_all writes the csv, the json and the xlsx in this order; a write
\* that raises ends main, the file it was writing may be there or not
ExportAll ==
    /\ pc = "export"
    /\ \E k \in 0..3, ok \in BOOLEAN :
        /\ ok => k = 3
        /\ files' = files \cup Range(SubSeq(DataFiles, 1, k))
        /\ drawn' = IF ok THEN [drawn EXCEPT !.yearly = <<yearly(df)>>] ELSE drawn
        /\ pc' = IF ok THEN MainNext("export") ELSE "crashed"
        /\ err' = IF ok THEN err ELSE "OSError"
    /\ UNCHANGED <<local_csv, resp, csv, raw, df, order, folder, console>>

\* a chart function computes its rows, draws them and saves the image; when
\* the drawing library raises, main ends and the image may be there or not
Chart(step, rows) ==
    /\ pc = step
    /\ \E ok \in BOOLEAN, saved \in BOOLEAN :
        /\ ok => saved
        /\ files' = IF saved THEN files \cup {step} ELSE files
        /\ drawn' = IF ok THEN [drawn EXCEPT ![step] = <<rows>>] ELSE drawn
        /\ pc' = IF ok THEN MainNext(step) ELSE "crashed"
        /\ err' = IF ok THEN err ELSE "chart error"
    /\ UNCHANGED <<local_csv, resp, csv, raw, df, order, folder, console>>

ChartLine == Chart("line", line_labels(df))

ChartPie == Chart("pie", share(df))

ChartBarPrice == Chart("price", top_price(df))

ChartBarAud == Chart("aud", top_aud(df))

ChartScatter == Chart("scatter", notable(df))

\* lines 222-227
PrintSummary ==
    /\ pc = "print"
    /\ console' = <<"exported files">> \o DataFiles \o <<"saved charts">> \o ChartFiles
    /\ pc' = "done"
    /\ UNCHANGED <<local_csv, resp, csv, raw, df, order, folder, files, drawn, err>>

Next ==
    \/ FetchOnline
    \/ ReadLocal
    \/ Preprocess
    \/ MakeDirs
    \/ ExportAll
    \/ ChartLine
    \/ ChartPie
    \/ ChartBarPrice
    \/ ChartBarAud
    \/ ChartScatter
    \/ PrintSummary

Spec == Init /\ [][Next]_vars

----------------------------------------------------------------------------
(* Properties *)

Terminal == pc \in {"done", "aborted", "crashed"}

\* preprocess has returned
Preprocessed == pc \notin {"load", "preprocess", "aborted"}

AllArtifacts == {"csv", "json", "xlsx", "line", "pie", "price", "aud", "scatter"}

WriteOrder == <<"csv", "json", "xlsx", "line", "pie", "price", "aud", "scatter">>

Diagnostic == <<"error: cannot get data", "hint: pass a local csv">>

EmptyTable0 ==
    /\ local_csv # "exists"
    /\ resp.status = "ok"
    /\ \/ resp.body \in {"nodata", "notable"}
       \/ (resp.body = "table" /\ resp.table = <<>>)

\* C2: with an empty or absent table0, fetch_online raises the
\* empty-dataset error; main prints the diagnostic and returns, no directory
\* created, no file written.
C2_EmptyDatasetAborts ==
    (EmptyTable0 /\ pc # "load") =>
        /\ pc = "aborted"
        /\ err = "ValueError: empty dataset"
        /\ console = Diagnostic
        /\ ~folder
        /\ files = {}

C2_Witness == EmptyTable0 /\ resp.body = "table" /\ pc = "aborted"

\* C3: a local file that lacks a canonical column under both of its names
\* makes read_local raise the missing-column error inside main's guard: the
\* run ends with the abort message and no files, not with an uncaught
\* exception.
C3_MissingColumnAborts ==
    (local_csv = "exists" /\ csv.readable /\ pc # "load"
        /\ ~(Fields \subseteq (csv.cn \cup csv.en))) =>
        /\ pc = "aborted"
        /\ err = "KeyError"
        /\ console = Diagnostic
        /\ ~folder
        /\ files = {}

C3_Witness ==
    /\ local_csv = "exists"
    /\ csv.readable
    /\ csv.en # {}
    /\ ~(Fields \subseteq (csv.cn \cup csv.en))
    /\ pc = "aborted"

SameRecord(r, q) ==
    /\ r.rank = q.rank
    /\ r.name = q.name
    /\ r.release = q.release
    /\ r.box = q.box
    /\ r.price = q.price
    /\ r.aud = q.aud

\* C4: preprocess returns the same records ordered by release date then
\* rank, ascending, the records without a date behind all others, and
\* records with equal date and rank in their input order.
C4_SortedStable ==
    Preprocessed =>
        /\ Len(df) = Len(raw)
        /\ Len(order) = Len(raw)
        /\ {order[i] : i \in 1..Len(order)} = 1..Len(raw)
        /\ \A i \in 1..Len(df) : SameRecord(df[i], raw[order[i]])
        /\ \A i \in 1..Len(df) : \A j \in (i + 1)..Len(df) :
            /\ IsNull(df[i].date) => IsNull(df[j].date)
            /\ (NotNull(df[i].date) /\ NotNull(df[j].date)) =>
                    Val(df[i].date) <= Val(df[j].date)
            /\ (df[i].date = df[j].date /\ NotNull(df[i].rank) /\ NotNull(df[j].rank)) =>
                    Val(df[i].rank) <= Val(df[j].rank)
            /\ (df[i].date = df[j].date /\ df[i].rank = df[j].rank) => order[i] < order[j]

C4_Witness ==
    /\ Preprocessed
    /\ Len(df) = 3
    /\ NotNull(df[1].date)
    /\ df[1].date = df[2].date
    /\ df[1].rank = df[2].rank
    /\ IsNull(df[3].date)
    /\ order = <<2, 3, 1>>

\* the response carries a table of at least one entry
HasEntries ==
    /\ local_csv # "exists"
    /\ resp.status = "ok"
    /\ resp.body = "table"
    /\ Len(resp.table) > 0

NumericKeys == {"BoxOffice", "AvgBoxOffice", "AvgAudienceCount"}

ColumnOf(key) ==
    CASE key = "BoxOffice" -> "box"
      [] key = "AvgBoxOffice" -> "price"
      [] key = "AvgAudienceCount" -> "aud"

Missing(v) == v.t \in {"absent", "null"}

\* a text that is not a number
NotANumber(v) == v.t = "str" /\ v.s \notin {"1000", "45", "nan"}

\* a non-empty text that is not a number
Unparseable(v) == NotANumber(v) /\ v.s # ""

SourceCell(i, c) == IF c \in csv.cn THEN csv.cnrows[i][c] ELSE csv.enrows[i][c]

C7_EmptyChartFails ==
    (Preprocessed /\ Len(df) = 0) =>
        \A c \in Range(ChartFiles) : ~(drawn[c] # <<>> /\ c \in files)

\* the box office of the records of year y, added up
BoxOfYear(y) ==
    SumSeq([i \in 1..Len(df) |->
        IF df[i].year = Some(y) /\ NotNull(df[i].box) THEN Val(df[i].box) ELSE 0])

\* a is the yearly aggregate of df
IsYearlyAggregate(a) ==
    /\ {a[k].year : k \in 1..Len(a)} = {Val(df[i].year) : i \in {j \in 1..Len(df) : NotNull(df[j].year)}}
    /\ \A k \in 1..Len(a) : \A m \in (k + 1)..Len(a) : a[k].year < a[m].year
    /\ \A k \in 1..Len(a) : a[k].total = BoxOfYear(a[k].year)

\* C8: the aggregate has one entry per distinct non-null year, in ascending
\* year order, each the sum of the box office of that year's records; the
\* second sheet of the spreadsheet and the pie chart hold the same aggregate.
C8_YearlyAggregate ==
    /\ drawn.yearly # <<>> => IsYearlyAggregate(drawn.yearly[1])
    /\ drawn.pie # <<>> => (IsYearlyAggregate(drawn.pie[1]) /\ drawn.pie = drawn.yearly)

C8_Witness ==
    /\ drawn.pie # <<>>
    /\ Len(drawn.pie[1]) = 3
    /\ \E i \in 1..Len(df) : IsNull(df[i].year)
    /\ \E i \in 1..Len(df) : \E j \in (i + 1)..Len(df) : df[i].year = df[j].year /\ NotNull(df[i].year)
    /\ drawn.pie[1][1].total > 0
    /\ drawn.pie[1][1].total < drawn.pie[1][2].total

\* cell a is greater than cell b, a NaN being smaller than every number
Greater(a, b) == NotNull(a) /\ (IsNull(b) \/ Val(a) > Val(b))

\* t holds the n rows of df that are largest in col (all rows when df has
\* fewer), largest first, the earlier row of df first among equals, and no
\* row left out is greater than, or equal to and earlier than, a row of t
IsTop(t, n, col) ==
    /\ Len(t) = Min(n, Len(df))
    /\ \A a \in 1..Len(t) : t[a].index \in 1..Len(df) /\ t[a] = df[t[a].index]
    /\ \A a \in 1..Len(t) : \A b \in (a + 1)..Len(t) :
        /\ ~Greater(t[b][col], t[a][col])
        /\ t[a][col] = t[b][col] => t[a].index < t[b].index
    /\ \A a \in 1..Len(t) : \A i \in 1..Len(df) :
        (\A b \in 1..Len(t) : t[b].index # i) =>
            /\ ~Greater(df[i][col], t[a][col])
            /\ df[i][col] = t[a][col] => t[a].index < i

\* C9: each top-10 bar chart shows min(10, N) records, those with the
\* largest ticket price (audience), largest first, none left out greater
\* than one shown, and among equal values the earlier record of the dataset
\* first, at the cut-off as in the order of the bars.
C9_TopTen ==
    /\ drawn.price # <<>> => IsTop(drawn.price[1], 10, "price")
    /\ drawn.aud # <<>> => IsTop(drawn.aud[1], 10, "aud")

C9_Witness ==
    /\ drawn.price # <<>>
    /\ Len(df) > 10
    /\ Len(drawn.price[1]) = 10
    /\ \E i \in 1..Len(df) :
        /\ \A b \in 1..10 : drawn.price[1][b].index # i
        /\ df[i].price = drawn.price[1][10].price
    /\ drawn.price[1][1].price # drawn.price[1][10].price

\* the two selections of the scatter chart, box office first
Selections == nlargest(df, 5, "box") \o nlargest(df, 5, "price")

\* C10: the scatter chart labels the records of the 5 largest box offices
\* and of the 5 largest ticket prices, for each name the first record of
\* that name in the two selections put one behind the other (box office
\* first); no name twice, and between min(5, number of names selected) and
\* 10 labels.
C10_Notable ==
    drawn.scatter # <<>> =>
        LET nb == drawn.scatter[1]
            names == {Selections[k].name : k \in 1..Len(Selections)}
            first(nm) == CHOOSE k \in 1..Len(Selections) :
                            /\ Selections[k].name = nm
                            /\ \A j \in 1..(k - 1) : Selections[j].name # nm
        IN /\ IsTop(nlargest(df, 5, "box"), 5, "box")
           /\ IsTop(nlargest(df, 5, "price"), 5, "price")
           /\ \A a \in 1..Len(nb) : \A b \in (a + 1)..Len(nb) :
                /\ nb[a].name # nb[b].name
                /\ first(nb[a].name) < first(nb[b].name)
           /\ {nb[a].name : a \in 1..Len(nb)} = names
           /\ \A a \in 1..Len(nb) : nb[a] = Selections[first(nb[a].name)]
           /\ Len(nb) = Cardinality(names)
           /\ Min(5, Cardinality(names)) <= Len(nb)
           /\ Len(nb) <= 10

C10_Witness ==
    /\ drawn.scatter # <<>>
    /\ Len(df) > 5
    /\ Len(drawn.scatter[1]) > 5
    /\ \E a \in 1..5 : \E b \in 6..10 :
        /\ Selections[a].name = Selections[b].name
        /\ Selections[a].index # Selections[b].index
    /\ \E a \in 1..5 : \E b \in 6..10 : Selections[a].index = Selections[b].index

====
